---------------------------- MODULE Spec2Model ----------------------------
(***************************************************************************)
(* Model of the Meeus astronomy integration: the calendar <-> Julian Day   *)
(* conversions, the day-of-week and interval helpers, the sidereal chain   *)
(* and the polling coordinator that publishes their results.               *)
(*                                                                         *)
(* Numbers.  The code computes in Python floats (binary64).  A quantity of *)
(* days (a Julian Day, a day with its fraction) is a record                *)
(* [day, sec, sub] standing for                                            *)
(*      day + (sec + sub / SubPerSec) / 86400                              *)
(* with 0 <= sec < 86400 and 0 <= sub < SubPerSec, so the record is the    *)
(* floor-normalised form of the number and may be negative through day.    *)
(* From 2^20 days on (every date after the year -1842) the steps of        *)
(* binary64 are whole numbers of sub units and FloatDays rounds a sum to   *)
(* the float the code gets; below 2^11 days the floats are finer than the  *)
(* sub unit and a sum is kept as it is.  No input of the model lies in     *)
(* between.  An angle is a record [deg, hi, lo] standing for               *)
(*      deg + hi / 2^26 + lo / 2^52   degrees,                             *)
(* which holds every float of magnitude 1 to 2^27 exactly, and PyFloat     *)
(* rounds a sum of angles to 53 significant bits.                          *)
(***************************************************************************)
EXTENDS Integers, Sequences, FiniteSets, TLC

(***************************************************************************)
(* Resolution.                                                             *)
(***************************************************************************)
\* round(total_seconds % 60, 4): four decimals, 10^4 steps to the second.
RoundScale == 10000
\* The sub unit of a quantity of days: 2^-25 second.
SubPerSec == 2 ^ 25
SecPerDay == 86400
HalfDay == SecPerDay \div 2
\* One step of binary64 between 2^20 and 2^21 days is 2^-32 day, which is
\* 86400 * 2^25 / 2^32 = 675 sub units; the step doubles with the magnitude.
FloatStep(j) == 675 * 2 ^ (j - 1)

(***************************************************************************)
(* Python's number primitives.                                             *)
(***************************************************************************)
\* Op applied to the value of v, computed a single time: a local variable
\* holding v.
Once(v, Op(_)) == CHOOSE r \in {Op(x) : x \in {v}} : TRUE

\* int(a / b) for integers a and b > 0: truncation toward zero.
PyIntDiv(a, b) == IF a >= 0 THEN a \div b ELSE -((-a) \div b)

\* math.floor(a / b) for integers a and b > 0.
PyFloorDiv(a, b) == a \div b

\* The record of the number  d + (s + u / SubPerSec) / 86400  for any
\* integers d, s, u: carries are propagated as exact addition does.
Days(d, s, u) ==
    LET s2 == s + (u \div SubPerSec)
    IN  [day |-> d + (s2 \div SecPerDay),
         sec |-> s2 % SecPerDay,
         sub |-> u % SubPerSec]

\* x + 0.5 days and x + n days, before rounding.
AddHalf(x) == Days(x.day, x.sec + HalfDay, x.sub)
AddDays(x, n) == [x EXCEPT !.day = x.day + n]

\* int(x) for a quantity of days x: truncation toward zero.
PyIntDays(x) ==
    IF x.day < 0 /\ (x.sec > 0 \/ x.sub > 0) THEN x.day + 1 ELSE x.day

\* math.floor(x) for a quantity of days x.
PyFloorDays(x) == x.day

\* x < y, x - y and abs(x) on quantities of days, before rounding.
DaysLess(x, y) ==
    \/ x.day < y.day
    \/ x.day = y.day /\ x.sec < y.sec
    \/ x.day = y.day /\ x.sec = y.sec /\ x.sub < y.sub
DaysMinus(x, y) == Days(x.day - y.day, x.sec - y.sec, x.sub - y.sub)
DaysAbs(x) == IF x.day < 0 THEN Days(-x.day, -x.sec, -x.sub) ELSE x

\* The binade of a quantity of days: j >= 1 when 2^(19+j) <= |x| < 2^(20+j),
\* 0 below 2^20 days.
FloatBinade(x) ==
    LET a == DaysAbs(x).day
    IN  IF a >= 2 ^ 22 THEN 3 ELSE IF a >= 2 ^ 21 THEN 2
        ELSE IF a >= 2 ^ 20 THEN 1 ELSE 0

\* The float nearest to x, an exact tie going to the even mantissa: what a
\* float addition whose exact result is x returns.  r2 is the time of day
\* of x, in sub units, modulo two float steps.
FloatDays(sum) ==
    Once(sum, LAMBDA x :
    Once(FloatBinade(x), LAMBDA j :
        IF j = 0 THEN x
        ELSE
        Once((2 ^ j * (((x.sec % 675) * ((2 ^ (25 - j)) % 675)) % 675) + x.sub)
                 % (2 * FloatStep(j)), LAMBDA r2 :
            LET G == FloatStep(j)
                r == r2 % G
                up == \/ 2 * r > G
                      \/ 2 * r = G /\ r2 >= G
            IN  Days(x.day, x.sec, x.sub - r + (IF up THEN G ELSE 0)))))

\* round(x, 4) for a float x in [0, 60] given in sub units of a second: the
\* nearest multiple of 1/RoundScale second, counted in those multiples, an
\* exact tie going to the even one.  u * 10000 / 2^25 is u * 625 / 2^21.
PyRound4(seconds) ==
    Once(seconds, LAMBDA x :
    Once(x % SubPerSec, LAMBDA u :
    Once((((u \div 4096) * 625) % 512) * 4096 + (u % 4096) * 625, LAMBDA rem :
        LET s == x \div SubPerSec
            q1 == ((u \div 4096) * 625) \div 512
            n == q1 + (rem \div 2 ^ 21)
            rem2 == rem % 2 ^ 21
            up == \/ rem2 > 2 ^ 20
                  \/ rem2 = 2 ^ 20 /\ n % 2 = 1
        IN  s * RoundScale + n + (IF up THEN 1 ELSE 0))))

\* A float number of seconds given in multiples of 1/RoundScale second, as
\* whole seconds and sub units; exact for whole seconds.
SecondUnits(n) ==
    LET m == n % RoundScale
        q == (m * 2048) \div 625
        rr == (m * 2048) % 625
    IN  [sec |-> n \div RoundScale, sub |-> q * 1024 + ((rr * 1024) \div 625)]

\* round(x, 6) for a float number of days x: the multiple of 10^-6 day
\* nearest to x, an exact tie going to the even one, as whole days and
\* millionths.  x * 10^6 = day * 10^6 + (sec + sub / 2^25) * 625 / 54.
PyRound6(days) ==
    Once(days, LAMBDA x :
    Once(((x.sec * 625) % 54) * 4096 + (x.sub \div 8192) * 625
             + (((x.sub % 8192) * 625) \div 8192), LAMBDA V :
        LET q == (x.sec * 625) \div 54
            e == ((x.sub % 8192) * 625) % 8192
            n2 == V \div 221184
            rem == V % 221184
            up == \/ rem > 110592
                  \/ rem = 110592 /\ (e > 0 \/ (q + n2) % 2 = 1)
            n == q + n2 + (IF up THEN 1 ELSE 0)
        IN  [day |-> x.day + (n \div 1000000), micro |-> n % 1000000]))

(***************************************************************************)
(* Calendar arithmetic (algorithms.py of the service version).             *)
(* A CalendarDate is [year, month, day, hour, minute, second]; second is   *)
(* a float, counted in multiples of 1/RoundScale second.                   *)
(***************************************************************************)
Date(y, m, d, h, mi, s) ==
    [year |-> y, month |-> m, day |-> d, hour |-> h, minute |-> mi, second |-> s]

\* The Julian calendar's rule in place of the Gregorian one.
is_leap_year_julian(year) == year % 4 = 0

is_leap_year(year) ==
    (year % 4 = 0 /\ year % 100 # 0) \/ (year % 400 = 0)

\* gregorian_to_jd without the day's decimals: int(day) in place of day.
gregorian_to_jd_frac_intday(year0, month0, day, hour, minute, second) ==
    LET year  == IF month0 <= 2 THEN year0 - 1 ELSE year0
        month == IF month0 <= 2 THEN month0 + 12 ELSE month0
        A == PyIntDiv(year, 100)
        B == 2 - A + PyIntDiv(A, 4)
        su == SecondUnits(second)
        day_fraction == Days(day.day, hour * 3600 + minute * 60 + su.sec, su.sub)
        whole == PyIntDiv(1461 * (year + 4716), 4)
                 + PyIntDiv(306001 * (month + 1), 10000)
    IN  FloatDays(AddDays(AddHalf(FloatDays(AddDays(day_fraction, whole))),
                          B - 1525))

\* gregorian_to_jd with second / 60.0 in place of second / 3600.0.
gregorian_to_jd_frac_second60(year0, month0, day, hour, minute, second) ==
    LET year  == IF month0 <= 2 THEN year0 - 1 ELSE year0
        month == IF month0 <= 2 THEN month0 + 12 ELSE month0
        A == PyIntDiv(year, 100)
        B == 2 - A + PyIntDiv(A, 4)
        su == SecondUnits(second)
        day_fraction == Days(day.day,
                             day.sec + hour * 3600 + minute * 60 + 60 * su.sec,
                             day.sub)
        whole == PyIntDiv(1461 * (year + 4716), 4)
                 + PyIntDiv(306001 * (month + 1), 10000)
    IN  FloatDays(AddDays(AddHalf(FloatDays(AddDays(day_fraction, whole))),
                          B - 1525))

\* gregorian_to_jd with the float argument day given as a quantity of days
\* (the day of the month with its decimals).  int() truncates toward zero;
\* the sum is taken from left to right, each addition rounded.
gregorian_to_jd_frac(year0, month0, day, hour, minute, second) ==
    LET year  == IF month0 <= 2 THEN year0 - 1 ELSE year0
        month == IF month0 <= 2 THEN month0 + 12 ELSE month0
        A == PyIntDiv(year, 100)
        B == 2 - A + PyIntDiv(A, 4)
        \* day + (hour + minute / 60 + second / 3600) / 24.0
        su == SecondUnits(second)
        day_fraction == Days(day.day,
                             day.sec + hour * 3600 + minute * 60 + su.sec,
                             day.sub + su.sub)
        \* int(365.25 * (year + 4716)) + int(30.6001 * (month + 1))
        whole == PyIntDiv(1461 * (year + 4716), 4)
                 + PyIntDiv(306001 * (month + 1), 10000)
        \* whole + day_fraction, then + B, then - 1524.5
        s1 == FloatDays(AddDays(day_fraction, whole))
        s2 == FloatDays(AddDays(s1, B))
    IN  FloatDays(Days(s2.day - 1525, s2.sec + HalfDay, s2.sub))

\* gregorian_to_jd called with an integer day of the month.
gregorian_to_jd(year, month, day, hour, minute, second) ==
    gregorian_to_jd_frac(year, month, Days(day, 0, 0), hour, minute, second)

jd_to_gregorian(jd) ==
    Once(FloatDays(AddHalf(jd)), LAMBDA jd_adjusted :
    Once(PyIntDays(jd_adjusted), LAMBDA Z :
    LET \* F = jd_adjusted - Z, in (-1, 1)
        F == AddDays(jd_adjusted, -Z)
        alpha == PyIntDiv(4 * Z - 7468865, 146097)
        A == IF Z < 2299161 THEN Z ELSE Z + 1 + alpha - PyIntDiv(alpha, 4)
    IN
    Once(A + 1524, LAMBDA B :
    Once(PyIntDiv(20 * B - 2442, 7305), LAMBDA C :
    Once(PyIntDiv(1461 * C, 4), LAMBDA D :
    Once(PyIntDiv(10000 * (B - D), 306001), LAMBDA E :
    Once(AddDays(F, B - D - PyIntDiv(306001 * E, 10000)), LAMBDA day_with_fraction :
    Once(PyIntDays(day_with_fraction), LAMBDA day :
    LET month == IF E < 14 THEN E - 1 ELSE E - 13
        year == IF month > 2 THEN C - 4716 ELSE C - 4715
        \* total_seconds = fractional_day * 86400, fractional_day in (-1, 1)
        fractional_day == AddDays(day_with_fraction, -day)
        whole_seconds == fractional_day.day * SecPerDay + fractional_day.sec
        hour == whole_seconds \div 3600
        minute == (whole_seconds % 3600) \div 60
        second == PyRound4((whole_seconds % 60) * SubPerSec + fractional_day.sub)
    IN  Date(year, month, day, hour, minute, second)))))))))

jd_to_mjd(jd) == FloatDays(Days(jd.day - 2400001, jd.sec + HalfDay, jd.sub))

mjd_to_jd(mjd) == FloatDays(Days(mjd.day + 2400000, mjd.sec + HalfDay, mjd.sub))

\* The index wd into the list of day names: 0 Sunday ... 6 Saturday.
day_of_week(jd) ==
    PyIntDays(FloatDays(Days(jd.day + 1, jd.sec + HalfDay, jd.sub))) % 7

\* day_of_year with K = 2 whatever the year.
day_of_year_k2(year, month, day) ==
    PyIntDiv(275 * month, 9) - 2 * PyIntDiv(month + 9, 12) + day - 30

day_of_year(year, month, day) ==
    LET K == IF is_leap_year(year) THEN 1 ELSE 2
    IN  PyIntDiv(275 * month, 9) - K * PyIntDiv(month + 9, 12) + day - 30

time_interval(jd1, jd2) == FloatDays(DaysAbs(DaysMinus(jd2, jd1)))

(***************************************************************************)
(* The current algorithms.py: Julian Day of a datetime, with math.floor.   *)
(***************************************************************************)
\* date_utc is a datetime: its second is a whole number of seconds.
get_julian_day(date_utc) ==
    LET Y == IF date_utc.month <= 2 THEN date_utc.year - 1 ELSE date_utc.year
        M == IF date_utc.month <= 2 THEN date_utc.month + 12 ELSE date_utc.month
        A == PyFloorDiv(Y, 100)
        B == 2 - A + PyFloorDiv(A, 4)
        whole == PyFloorDiv(1461 * (Y + 4716), 4)
                 + PyFloorDiv(306001 * (M + 1), 10000)
    IN  \* JD + day_fraction
        FloatDays(Days(whole + date_utc.day + B - 1525,
                       date_utc.hour * 3600 + date_utc.minute * 60
                         + date_utc.second + HalfDay,
                       0))

(***************************************************************************)
(* Angles in degrees, as floats.                                           *)
(***************************************************************************)
Limb == 2 ^ 26

\* The record of the number  d + h / 2^26 + l / 2^52  for any integers.
Ang(d, h, l) ==
    LET h2 == h + (l \div Limb)
    IN  [deg |-> d + (h2 \div Limb), hi |-> h2 % Limb, lo |-> l % Limb]

\* A whole number of degrees.
Deg(n) == Ang(n, 0, 0)

AngNeg(x) == Ang(-x.deg, -x.hi, -x.lo)
AngAbs(x) == IF x.deg < 0 THEN AngNeg(x) ELSE x
AngPlus(x, y) == Ang(x.deg + y.deg, x.hi + y.hi, x.lo + y.lo)

\* The float nearest to a number a >= 0: 53 significant bits, an exact tie
\* going to the even mantissa.  q is the float step at a in units of 2^-52.
PyFloatAbs(number) ==
    Once(number, LAMBDA a :
        LET q == CHOOSE p \in {2 ^ e : e \in 0 .. 26} : p <= a.deg /\ a.deg < 2 * p
            k == a.lo \div q
            r == a.lo % q
            up == \/ 2 * r > q
                  \/ 2 * r = q /\ k % 2 = 1
        IN  IF a.deg < 1 THEN a
            ELSE Ang(a.deg, a.hi, (IF up THEN k + 1 ELSE k) * q))

PyFloat(x) == IF x.deg < 0 THEN AngNeg(PyFloatAbs(AngNeg(x))) ELSE PyFloatAbs(x)

\* x + y on floats.
PyFloatAdd(x, y) == PyFloat(AngPlus(x, y))

\* x % 360.0 on floats: fmod(x, 360.0), exact and with the sign of x, to
\* which 360.0 is added by a float addition when it is negative.
PyFloatMod360(x) ==
    LET a == AngAbs(x)
        m == [a EXCEPT !.deg = a.deg % 360]
    IN  IF m = Deg(0) THEN m
        ELSE IF x.deg < 0 THEN PyFloatAdd(AngNeg(m), Deg(360))
        ELSE m

(***************************************************************************)
(* The sidereal chain of the current algorithms.py.                        *)
(***************************************************************************)
\* Formula 12.4 is evaluated on a grid of 2^-20 degree, every term floored
\* to the grid, which follows the code to 2^-16 degree within a century of
\* J2000.0:  280.46061837 = 280 + 482993 / 2^20,
\* 360.98564736629 = 361 - 15049.8273 / 2^20 per day, which is
\* 4381.02877 / 2^20 per second, and 0.000387933 = 407 / 2^20.
GmstUnit == 2 ^ 20

\* T in hundredths of a century, truncated.
get_julian_centuries(jd) == PyIntDiv((jd.day - 2451545) * 100, 36525)

get_mean_sidereal_time_greenwich(jd) ==
    LET \* jd - 2451545.0
        d == Days(jd.day - 2451545, jd.sec, jd.sub)
        T == get_julian_centuries(jd)
        \* 0.000387933 * T^2 and T^3 / 38710000.0
        T2 == (407 * T * T) \div 10000
        T3 == PyIntDiv(PyIntDiv(T * T * T, 1000), 36917)
        units == 482993
                 - d.day * 15050 + ((d.day * 1727) \div 10000)
                 + d.sec * 4381 + ((d.sec * 2877) \div 100000)
                 + (((d.sub \div 8192) * 4381) \div 4096)
                 + T2 - T3
        mst == Ang(280 + 361 * d.day + (units \div GmstUnit),
                   (units % GmstUnit) * 64, 0)
    IN  \* mst % 360.0
        PyFloatMod360(mst)

get_local_sidereal_time(gmst_deg, longitude) ==
    PyFloatMod360(PyFloatAdd(gmst_deg, longitude))

(***************************************************************************)
(* Values a variable holds before the program has computed it: Python's    *)
(* None is the empty tuple, a computed value x the one-element tuple <<x>>.*)
(***************************************************************************)
None == << >>
Some(x) == << x >>
Val(v) == v[1]

(***************************************************************************)
(* The civil calendar the callers take their dates from (datetime's        *)
(* proleptic Gregorian calendar): month lengths and the valid dates.       *)
(***************************************************************************)
DaysInMonth(year, month) ==
    IF month = 2 THEN (IF is_leap_year(year) THEN 29 ELSE 28)
    ELSE IF month \in {4, 6, 9, 11} THEN 30 ELSE 31

\* A whole number of seconds as the float second of a CalendarDate.
Whole(s) == s * RoundScale

(***************************************************************************)
(* Bounded inputs.                                                         *)
(***************************************************************************)
\* Years of the input dates: before and after the 1582 reform, and around
\* year 0 and -100 (negative adjusted years).
InputYears == {-100, -99, 0, 333, 1500, 1582, 1583, 1900, 1957, 2000, 2024}
InputMonths == 1 .. 12
InputDayNumbers == {1, 4, 5, 14, 15, 27, 28, 29, 30, 31}
\* Times of day as <<hour, minute, second>>, whole seconds.
InputTimes == {<<0, 0, 0>>, <<0, 1, 0>>, <<12, 0, 0>>, <<19, 26, 24>>,
               <<23, 59, 59>>}
\* The valid CalendarDates among them: the day exists in its month.
InputDates ==
    {dt \in {Date(y, m, d, t[1], t[2], Whole(t[3])) :
                y \in InputYears, m \in InputMonths,
                d \in InputDayNumbers, t \in InputTimes} :
        dt.day <= DaysInMonth(dt.year, dt.month)}
\* Julian Days >= 0 on a whole second (the floats nearest to them), on both
\* sides of jd_to_gregorian's cutover Z = 2299161 (jd = 2299160.5).
InputJdDays == {1048576, 1842712, 2299158, 2299159, 2299160, 2299161, 2299162,
                2436116, 2451544, 2451545}
InputJdSecs == {0, 1, 43199, 43200, 43201, 86399}
InputJds == {FloatDays(Days(d, sec, 0)) : d \in InputJdDays, sec \in InputJdSecs}

(***************************************************************************)
(* State.                                                                  *)
(***************************************************************************)
\* Conversions applied one after the other: a caller starts from a
\* CalendarDate or from a Julian Day and applies gregorian_to_jd and
\* jd_to_gregorian in turn, each to the other's result.
VARIABLES
    rt_kind,    \* "date" or "jd": what the caller started from
    rt_orig,    \* the value the caller started from
    rt_date,    \* the CalendarDate at hand (given or computed), or None
    rt_jd,      \* the Julian Day at hand (given or computed), or None
    rt_n        \* the number of conversions applied so far

\* day_of_week along a Julian Day that moves on by whole weeks.
VARIABLES
    wk_jd,      \* the Julian Day at hand
    wk_wd,      \* day_of_week(wk_jd)
    wk_first,   \* day_of_week of the first Julian Day
    wk_weeks    \* weeks added so far

\* The service version's library called at successive instants, as its
\* polled sensors call it with the clock: each poll computes the Julian Day
\* and the day of the week of an instant given by its calendar fields.
VARIABLES
    ck_start,   \* the instant of the first poll
    ck_now,     \* the instant of the last poll: calendar fields, whole seconds
    ck_jd,      \* gregorian_to_jd(year, month, day, hour, minute, second)
    ck_jd_frac, \* gregorian_to_jd(year, month, day + f): fractional-day form
    ck_gjd,     \* get_julian_day(now), or None outside datetime's years
    ck_wd,      \* day_of_week(ck_jd)
    ck_jd0,     \* ck_jd of the first poll
    ck_prev,    \* the values of the poll one second earlier, or None
    ck_op,      \* how the clock moved between the last two polls
    ck_elapsed, \* calendar days gone by since the first poll
    ck_secs,    \* one-second steps taken
    ck_days     \* one-day steps taken

\* The sidereal chain applied to a Julian Day, or to a Greenwich sidereal
\* time the caller supplies, and an observer's longitude.
VARIABLES
    sd_jd,      \* the Julian Day at hand
    sd_lon,     \* the observer's longitude, positive east
    sd_gmst,    \* the Greenwich mean sidereal time (given or computed), or None
    sd_lmst,    \* get_local_sidereal_time(sd_gmst, sd_lon), or None
    sd_src      \* where sd_gmst comes from: "jd", "given" or "none"

\* The coordinator MeeusAstronomyData, its update running on an executor
\* thread, and the sensors reading its fields from the event loop.
VARIABLES
    co_longitude, \* self._longitude
    co_clock,     \* the wall clock, a datetime
    co_utc_now,   \* utc_now of the update in progress, or None
    co_pc,        \* the line the update is at: "idle", "jd", "gmst", "lmst"
    co_jd,        \* self.jd
    co_gmst_deg,  \* self.gmst_deg
    co_lmst_deg,  \* self.lmst_deg
    co_seen,      \* the fields as the sensors last read them, or None
    co_ticks      \* timer ticks so far

\* The day-of-year sensor polled on successive days of the calendar.
VARIABLES
    yr_now,     \* the date of the last poll
    yr_doy,     \* day_of_year(now.year, now.month, now.day)
    yr_leap,    \* is_leap_year(now.year)
    yr_prev,    \* the date and the value of the poll of the day before, or None
    yr_steps    \* days gone by since the first poll

\* The two services: the last call's data, what the core was called with,
\* and how the call ended.
VARIABLES
    sv_service,  \* the service called: its name, or "none" before any call
    sv_data,     \* call.data as the caller sent it
    sv_core,     \* the arguments the core function was invoked with, or None
    sv_response, \* the response dictionary returned to the caller, or None
    sv_error     \* the error the call ended in, or None

\* degrees_to_hms applied to an angle.
VARIABLES
    hm_degrees,  \* the angle in degrees
    hm_hms       \* degrees_to_hms(hm_degrees), or None

rt_vars == <<rt_kind, rt_orig, rt_date, rt_jd, rt_n>>
wk_vars == <<wk_jd, wk_wd, wk_first, wk_weeks>>
ck_vars == <<ck_start, ck_now, ck_jd, ck_jd_frac, ck_gjd, ck_wd, ck_jd0,
             ck_prev, ck_op, ck_elapsed, ck_secs, ck_days>>
sd_vars == <<sd_jd, sd_lon, sd_gmst, sd_lmst, sd_src>>
co_vars == <<co_longitude, co_clock, co_utc_now, co_pc, co_jd, co_gmst_deg,
             co_lmst_deg, co_seen, co_ticks>>
yr_vars == <<yr_now, yr_doy, yr_leap, yr_prev, yr_steps>>
sv_vars == <<sv_service, sv_data, sv_core, sv_response, sv_error>>
hm_vars == <<hm_degrees, hm_hms>>
vars == <<rt_vars, wk_vars, ck_vars, sd_vars, co_vars, yr_vars, sv_vars, hm_vars>>

(***************************************************************************)
(* Conversions applied one after the other.                                *)
(***************************************************************************)
RtInit ==
    /\ rt_n = 0
    /\ \/ /\ rt_kind = "date"
          /\ rt_orig \in InputDates
          /\ rt_date = Some(rt_orig)
          /\ rt_jd = None
       \/ /\ rt_kind = "jd"
          /\ rt_orig \in InputJds
          /\ rt_jd = Some(rt_orig)
          /\ rt_date = None

RtIdle ==
    /\ rt_kind = "idle" /\ rt_orig = None /\ rt_date = None
    /\ rt_jd = None /\ rt_n = 0

\* jd = gregorian_to_jd(year, month, day, hour, minute, second)
CallGregorianToJd ==
    /\ rt_date # None
    /\ (rt_kind = "date" /\ rt_n = 0) \/ (rt_kind = "jd" /\ rt_n = 1)
    /\ LET d == Val(rt_date)
       IN  rt_jd' = Some(gregorian_to_jd(d.year, d.month, d.day,
                                         d.hour, d.minute, d.second))
    /\ rt_n' = rt_n + 1
    /\ UNCHANGED <<rt_kind, rt_orig, rt_date>>
    /\ UNCHANGED <<wk_vars, ck_vars, sd_vars, co_vars,
                    yr_vars, sv_vars, hm_vars>>

\* year, month, day, hour, minute, second = jd_to_gregorian(jd)
CallJdToGregorian ==
    /\ rt_jd # None
    /\ (rt_kind = "jd" /\ rt_n = 0) \/ (rt_kind = "date" /\ rt_n = 1)
    /\ rt_date' = Some(jd_to_gregorian(Val(rt_jd)))
    /\ rt_n' = rt_n + 1
    /\ UNCHANGED <<rt_kind, rt_orig, rt_jd>>
    /\ UNCHANGED <<wk_vars, ck_vars, sd_vars, co_vars,
                    yr_vars, sv_vars, hm_vars>>

RtNext == CallGregorianToJd \/ CallJdToGregorian

(***************************************************************************)
(* day_of_week along whole weeks.                                          *)
(***************************************************************************)
\* Weeks added to a Julian Day.
MaxWeeks == 3
\* Julian Days around 0, negative ones included, and a present-day one.
WeekJdDays == (-16 .. 8) \cup {2451544}
WeekJds == {FloatDays(Days(d, sec, 0)) : d \in WeekJdDays, sec \in InputJdSecs}

WkInit ==
    /\ wk_jd \in WeekJds
    /\ wk_wd = day_of_week(wk_jd)
    /\ wk_first = wk_wd
    /\ wk_weeks = 0

WkIdle ==
    /\ wk_jd = None /\ wk_wd = None /\ wk_first = None /\ wk_weeks = 0

\* day_of_week(jd + 7)
AddWeek ==
    /\ wk_weeks < MaxWeeks
    /\ wk_jd' = FloatDays(AddDays(wk_jd, 7))
    /\ wk_wd' = day_of_week(wk_jd')
    /\ wk_weeks' = wk_weeks + 1
    /\ UNCHANGED wk_first
    /\ UNCHANGED <<rt_vars, ck_vars, sd_vars, co_vars,
                    yr_vars, sv_vars, hm_vars>>

WkNext == AddWeek

(***************************************************************************)
(* The library polled at successive instants.                              *)
(***************************************************************************)
\* One-second and one-day steps of the clock between polls.
MaxSecondSteps == 2
MaxDaySteps == 3
\* The interval of the code's own example: 1910 April 20.0 to 1986 February 9.0.
HalleyDays == 27689
\* Dates the first poll falls on: the last days of every month in years
\* before the JD epoch (-4713), with a negative adjusted year (-99), a century
\* common year (1900), a century leap year (2000), a common and a leap year,
\* and the dates of the code's own examples.
ClockYears == {-4713, -99, 1900, 2000, 2023, 2024}
ClockDays == {28, 29, 30, 31}
ExampleDates == {<<1910, 4, 20>>, <<1957, 10, 4>>, <<2000, 1, 1>>}
\* Dates of the years 1 to 1582, before the Gregorian reform: the first day
\* datetime has, a date whose Julian Day is just below 2^21, a 28 February
\* and the eve of the reform.
EarlyDates == {<<1, 1, 1>>, <<1027, 1, 1>>, <<1500, 2, 28>>, <<1582, 10, 4>>}
ClockStartTimes == {<<0, 0, 0>>, <<19, 26, 24>>}
\* Other instants of a civil date: its first and last second, and noon.
ClockTimes == {<<0, 0, 0>>, <<12, 0, 0>>, <<23, 59, 59>>}
ClockDates ==
    {dt \in {Date(y, m, d, t[1], t[2], t[3]) :
                y \in ClockYears, m \in InputMonths,
                d \in ClockDays, t \in ClockStartTimes} :
        dt.day <= DaysInMonth(dt.year, dt.month)}
    \cup {Date(e[1], e[2], e[3], t[1], t[2], t[3]) :
                e \in ExampleDates \cup EarlyDates, t \in ClockStartTimes}

AtMidnight(now) == now.hour = 0 /\ now.minute = 0 /\ now.second = 0

\* The day after a calendar date, at the same time of day.
NextDate(now) ==
    IF now.day < DaysInMonth(now.year, now.month)
    THEN [now EXCEPT !.day = now.day + 1]
    ELSE IF now.month < 12
    THEN [now EXCEPT !.day = 1, !.month = now.month + 1]
    ELSE [now EXCEPT !.day = 1, !.month = 1, !.year = now.year + 1]

\* As JulianDaySensor.update calls it, at a whole second (microsecond 0):
\* gregorian_to_jd(now.year, now.month, now.day, now.hour, now.minute, second)
SensorJd(now) ==
    gregorian_to_jd(now.year, now.month, now.day,
                    now.hour, now.minute, Whole(now.second))

\* The same instant in the fractional-day form gregorian_to_jd(y, m, d + f),
\* f = (hour + minute / 60 + second / 3600) / 24 of a day.
SensorJdFrac(now) ==
    gregorian_to_jd_frac(now.year, now.month,
                         Days(now.day,
                              now.hour * 3600 + now.minute * 60 + now.second,
                              0),
                         0, 0, 0)

\* get_julian_day takes a datetime: years 1 to 9999.
CoordinatorJd(now) ==
    IF now.year >= 1 /\ now.year <= 9999 THEN Some(get_julian_day(now)) ELSE None

\* One poll at the instant now.
Poll(now) ==
    /\ ck_now' = now
    /\ ck_jd' = SensorJd(now)
    /\ ck_jd_frac' = SensorJdFrac(now)
    /\ ck_gjd' = CoordinatorJd(now)
    /\ ck_wd' = day_of_week(SensorJd(now))

CkInit ==
    /\ ck_start \in ClockDates
    /\ ck_now = ck_start
    /\ ck_jd = SensorJd(ck_start)
    /\ ck_jd_frac = SensorJdFrac(ck_start)
    /\ ck_gjd = CoordinatorJd(ck_start)
    /\ ck_wd = day_of_week(SensorJd(ck_start))
    /\ ck_jd0 = ck_jd
    /\ ck_prev = None
    /\ ck_op = "first"
    /\ ck_elapsed = 0 /\ ck_secs = 0 /\ ck_days = 0

CkIdle ==
    /\ ck_start = None /\ ck_now = None /\ ck_jd = None /\ ck_jd_frac = None
    /\ ck_gjd = None /\ ck_wd = None /\ ck_jd0 = None /\ ck_prev = None
    /\ ck_op = "idle" /\ ck_elapsed = 0 /\ ck_secs = 0 /\ ck_days = 0

\* The next poll comes one second later, within the same minute.
PollNextSecond ==
    /\ ck_secs < MaxSecondSteps
    /\ ck_now.second < 59
    /\ Poll([ck_now EXCEPT !.second = ck_now.second + 1])
    /\ ck_prev' = Some([jd |-> ck_jd, gjd |-> ck_gjd])
    /\ ck_op' = "second"
    /\ ck_secs' = ck_secs + 1
    /\ UNCHANGED <<ck_start, ck_jd0, ck_elapsed, ck_days>>
    /\ UNCHANGED <<rt_vars, wk_vars, sd_vars, co_vars,
                    yr_vars, sv_vars, hm_vars>>

\* The next poll comes at another instant of the same civil date.
PollSameDate ==
    /\ \E t \in ClockTimes :
          /\ <<ck_now.hour, ck_now.minute, ck_now.second>> # t
          /\ Poll([ck_now EXCEPT !.hour = t[1], !.minute = t[2], !.second = t[3]])
    /\ ck_prev' = None
    /\ ck_op' = "time"
    /\ UNCHANGED <<ck_start, ck_jd0, ck_elapsed, ck_secs, ck_days>>
    /\ UNCHANGED <<rt_vars, wk_vars, sd_vars, co_vars,
                    yr_vars, sv_vars, hm_vars>>

\* The next poll comes one calendar day later, at the same time of day.
PollNextDay ==
    /\ ck_days < MaxDaySteps
    /\ Poll(NextDate(ck_now))
    /\ ck_prev' = None
    /\ ck_op' = "day"
    /\ ck_elapsed' = ck_elapsed + 1
    /\ ck_days' = ck_days + 1
    /\ UNCHANGED <<ck_start, ck_jd0, ck_secs>>
    /\ UNCHANGED <<rt_vars, wk_vars, sd_vars, co_vars,
                    yr_vars, sv_vars, hm_vars>>

\* The code's own interval example: from 1910 April 20.0 to 1986 February 9.0.
PollHalley ==
    /\ ck_now = Date(1910, 4, 20, 0, 0, 0)
    /\ Poll(Date(1986, 2, 9, 0, 0, 0))
    /\ ck_prev' = None
    /\ ck_op' = "halley"
    /\ ck_elapsed' = ck_elapsed + HalleyDays
    /\ UNCHANGED <<ck_start, ck_jd0, ck_secs, ck_days>>
    /\ UNCHANGED <<rt_vars, wk_vars, sd_vars, co_vars,
                    yr_vars, sv_vars, hm_vars>>

CkNext == PollNextSecond \/ PollSameDate \/ PollNextDay \/ PollHalley

(***************************************************************************)
(* The sidereal chain.                                                     *)
(***************************************************************************)
\* Julian Days around J2000.0 = 2451545.0, before it (negative mst) and after.
SiderealJdDays == {2451545 + n : n \in {-36525, -366, -2, -1, 0, 1, 366, 8824}}
SiderealJds ==
    {FloatDays(Days(d, sec, 0)) : d \in SiderealJdDays, sec \in InputJdSecs}
\* Floats in [0, 360): 0, 2^-52, 1, 1 + 2^-52, 180 and 360 - 2^-44.
GmstInputs ==
    {Deg(0), Ang(0, 0, 1), Deg(1), Ang(1, 0, 1), Deg(180),
     Ang(359, Limb - 1, Limb - 256)}
\* Signed longitudes: -1.62 (the docstring's Cherbourg), 2.3522,
\* -1.000000000000001 (the float -(1 + 5 * 2^-52)), -2^-52, whole degrees
\* west and east, and values beyond half a turn.
Longitudes ==
    {Ang(-2, 25501368, 21474836), Ang(2, 23635741, 60451664),
     Ang(-2, Limb - 1, Limb - 5), Ang(-1, Limb - 1, Limb - 1),
     Deg(-720), Deg(-180), Deg(-1), Deg(0), Deg(1), Deg(180), Deg(540)}

SdInit ==
    /\ sd_jd \in SiderealJds
    /\ sd_lon \in Longitudes
    /\ sd_gmst = None /\ sd_lmst = None /\ sd_src = "none"

SdIdle ==
    /\ sd_jd = None /\ sd_lon = None /\ sd_gmst = None /\ sd_lmst = None
    /\ sd_src = "idle"

\* gmst_deg = get_mean_sidereal_time_greenwich(jd)
CallGmst ==
    /\ sd_src = "none"
    /\ sd_gmst' = Some(get_mean_sidereal_time_greenwich(sd_jd))
    /\ sd_src' = "jd"
    /\ UNCHANGED <<sd_jd, sd_lon, sd_lmst>>
    /\ UNCHANGED <<rt_vars, wk_vars, ck_vars, co_vars,
                    yr_vars, sv_vars, hm_vars>>

\* The caller supplies a gmst_deg in [0, 360) of its own.
GivenGmst ==
    /\ sd_src = "none"
    /\ \E g \in GmstInputs : sd_gmst' = Some(g)
    /\ sd_src' = "given"
    /\ UNCHANGED <<sd_jd, sd_lon, sd_lmst>>
    /\ UNCHANGED <<rt_vars, wk_vars, ck_vars, co_vars,
                    yr_vars, sv_vars, hm_vars>>

\* lmst_deg = get_local_sidereal_time(gmst_deg, longitude)
CallLmst ==
    /\ sd_gmst # None /\ sd_lmst = None
    /\ sd_lmst' = Some(get_local_sidereal_time(Val(sd_gmst), sd_lon))
    /\ UNCHANGED <<sd_jd, sd_lon, sd_gmst, sd_src>>
    /\ UNCHANGED <<rt_vars, wk_vars, ck_vars, co_vars,
                    yr_vars, sv_vars, hm_vars>>

SdNext == CallGmst \/ GivenGmst \/ CallLmst

(***************************************************************************)
(* The polling coordinator (sensor.py).                                    *)
(***************************************************************************)
\* Timer ticks (SCAN_INTERVAL apart) followed.
MaxTicks == 3
\* Instants the integration is set up at.
SetupInstants ==
    {Date(2000, 1, 1, 11, 59, 58), Date(1999, 12, 31, 22, 59, 59),
     Date(2024, 2, 29, 0, 0, 0)}

\* One second later on the wall clock, within the day.
NextSecond(now) ==
    IF now.second < 59 THEN [now EXCEPT !.second = now.second + 1]
    ELSE IF now.minute < 59
    THEN [now EXCEPT !.second = 0, !.minute = now.minute + 1]
    ELSE [now EXCEPT !.second = 0, !.minute = 0, !.hour = now.hour + 1]

\* MeeusAstronomyData.__init__, before the first tick.
CoInit ==
    /\ co_longitude \in Longitudes
    /\ co_clock \in SetupInstants
    /\ co_utc_now = None /\ co_pc = "idle"
    /\ co_jd = None /\ co_gmst_deg = None /\ co_lmst_deg = None
    /\ co_seen = None
    /\ co_ticks = 0

CoIdle ==
    /\ co_longitude = None /\ co_clock = None /\ co_utc_now = None
    /\ co_pc = "off" /\ co_jd = None /\ co_gmst_deg = None
    /\ co_lmst_deg = None /\ co_seen = None /\ co_ticks = 0

\* The interval timer fires a second later: async_update_data hands
\* coordinator.update to an executor thread, which reads the clock.
TimerFires ==
    /\ co_pc = "idle"
    /\ co_ticks < MaxTicks
    /\ co_clock' = NextSecond(co_clock)
    /\ co_utc_now' = Some(co_clock')
    /\ co_pc' = "jd"
    /\ co_ticks' = co_ticks + 1
    /\ UNCHANGED <<co_longitude, co_jd, co_gmst_deg, co_lmst_deg, co_seen>>
    /\ UNCHANGED <<rt_vars, wk_vars, ck_vars, sd_vars,
                    yr_vars, sv_vars, hm_vars>>

\* self.jd = get_julian_day(utc_now)
UpdateJd ==
    /\ co_pc = "jd"
    /\ co_jd' = Some(get_julian_day(Val(co_utc_now)))
    /\ co_pc' = "gmst"
    /\ UNCHANGED <<co_longitude, co_clock, co_utc_now, co_gmst_deg,
                   co_lmst_deg, co_seen, co_ticks>>
    /\ UNCHANGED <<rt_vars, wk_vars, ck_vars, sd_vars,
                    yr_vars, sv_vars, hm_vars>>

\* self.gmst_deg = get_mean_sidereal_time_greenwich(self.jd)
UpdateGmst ==
    /\ co_pc = "gmst"
    /\ co_gmst_deg' = Some(get_mean_sidereal_time_greenwich(Val(co_jd)))
    /\ co_pc' = "lmst"
    /\ UNCHANGED <<co_longitude, co_clock, co_utc_now, co_jd, co_lmst_deg,
                   co_seen, co_ticks>>
    /\ UNCHANGED <<rt_vars, wk_vars, ck_vars, sd_vars,
                    yr_vars, sv_vars, hm_vars>>

\* self.lmst_deg = get_local_sidereal_time(self.gmst_deg, self._longitude)
UpdateLmst ==
    /\ co_pc = "lmst"
    /\ co_lmst_deg' = Some(get_local_sidereal_time(Val(co_gmst_deg),
                                                    co_longitude))
    /\ co_pc' = "idle"
    /\ co_utc_now' = None
    /\ UNCHANGED <<co_longitude, co_clock, co_jd, co_gmst_deg, co_seen,
                   co_ticks>>
    /\ UNCHANGED <<rt_vars, wk_vars, ck_vars, sd_vars,
                    yr_vars, sv_vars, hm_vars>>

\* The event loop reads the three sensors' fields, wherever the update is.
ReadSensors ==
    /\ co_pc # "off"
    /\ co_seen' = Some([jd |-> co_jd, gmst_deg |-> co_gmst_deg,
                        lmst_deg |-> co_lmst_deg])
    /\ UNCHANGED <<co_longitude, co_clock, co_utc_now, co_pc, co_jd,
                   co_gmst_deg, co_lmst_deg, co_ticks>>
    /\ UNCHANGED <<rt_vars, wk_vars, ck_vars, sd_vars,
                    yr_vars, sv_vars, hm_vars>>

CoNext == TimerFires \/ UpdateJd \/ UpdateGmst \/ UpdateLmst \/ ReadSensors

(***************************************************************************)
(* The day of the year along the calendar.                                 *)
(***************************************************************************)
\* Days followed from the first poll: a year and the start of the next.
MaxDoySteps == 370
\* Years the first poll falls in, on 1 January: years before and after
\* year 0, century years, leap and common years.
DoyYears == {-400, -100, -4, -1, 0, 1, 4, 100, 1582, 1600, 1700, 1900,
             2000, 2023, 2024, 2100}

YrInit ==
    /\ yr_now \in {Date(y, 1, 1, 0, 0, 0) : y \in DoyYears}
    /\ yr_doy = day_of_year(yr_now.year, yr_now.month, yr_now.day)
    /\ yr_leap = is_leap_year(yr_now.year)
    /\ yr_prev = None
    /\ yr_steps = 0

YrIdle ==
    /\ yr_now = None /\ yr_doy = None /\ yr_leap = None /\ yr_prev = None
    /\ yr_steps = 0

\* DayOfYearSensor.update, a day after the last poll:
\* doy = algorithms.day_of_year(now.year, now.month, now.day)
PollDayOfYear ==
    /\ yr_now # None
    /\ yr_steps < MaxDoySteps
    /\ yr_now' = NextDate(yr_now)
    /\ yr_doy' = day_of_year(yr_now'.year, yr_now'.month, yr_now'.day)
    /\ yr_leap' = is_leap_year(yr_now'.year)
    /\ yr_prev' = Some([now |-> yr_now, doy |-> yr_doy])
    /\ yr_steps' = yr_steps + 1
    /\ UNCHANGED <<rt_vars, wk_vars, ck_vars, sd_vars, co_vars, sv_vars, hm_vars>>

YrNext == PollDayOfYear

(***************************************************************************)
(* The two services (__init__.py of the service version).                  *)
(***************************************************************************)
\* Numbers as a caller sends them in call.data: an integer n as Whl(n), an integer too
\* large for a float (Huge, 10^400 say), a finite float x, nan and inf.
Whl(n) == [int |-> n]
Huge == [huge |-> TRUE]
Fin(x) == [fin |-> x]
NaN == [nan |-> TRUE]
Inf == [inf |-> TRUE]
\* A value that is no number.
Text == [text |-> "abc"]

\* How a call ends: it returns a value or raises an exception.
Return(v) == [value |-> v]
Raise(e) == [raised |-> e]
Raised(outcome) == "raised" \in DOMAIN outcome

\* cv.positive_int: vol.All(vol.Coerce(int), vol.Range(min=0)).
positive_int(v) ==
    \/ "huge" \in DOMAIN v
    \/ "int" \in DOMAIN v /\ v.int >= 0
\* vol.Range(min=lo, max=hi)
Range(v, lo, hi) == "int" \in DOMAIN v /\ v.int >= lo /\ v.int <= hi
\* vol.Coerce(float): float(v)
CoerceFloat(v) == DOMAIN v \subseteq {"int", "fin", "nan", "inf"}

\* The validated data (defaults filled in), or vol.Invalid raised.
CONVERT_TO_JD_SCHEMA(data) ==
    LET d == data @@ [hour |-> Whl(0), minute |-> Whl(0), second |-> Fin(0)]
    IN  IF /\ {"year", "month", "day"} \subseteq DOMAIN data
           /\ positive_int(d.year)
           /\ positive_int(d.month) /\ Range(d.month, 1, 12)
           /\ positive_int(d.day) /\ Range(d.day, 1, 31)
           /\ positive_int(d.hour) /\ Range(d.hour, 0, 23)
           /\ positive_int(d.minute) /\ Range(d.minute, 0, 59)
           /\ CoerceFloat(d.second)
        THEN Return(d)
        ELSE Raise("Invalid")

CONVERT_TO_GREGORIAN_SCHEMA(data) ==
    IF "julian_day" \in DOMAIN data /\ CoerceFloat(data.julian_day)
    THEN Return(data)
    ELSE Raise("Invalid")

\* gregorian_to_jd as Python runs it on the validated fields: year / 100
\* raises OverflowError for an integer too large for a float, and a second
\* that is nan or inf makes the sum nan or inf.
call_gregorian_to_jd(year, month, day, hour, minute, second) ==
    IF "huge" \in DOMAIN year THEN Raise("OverflowError")
    ELSE IF "fin" \in DOMAIN second
    THEN Return(Fin(gregorian_to_jd(year.int, month.int, day.int,
                                    hour.int, minute.int, second.fin)))
    ELSE Return(second)

\* jd_to_gregorian as Python runs it: int(jd_adjusted) raises ValueError
\* for nan and OverflowError for inf.
call_jd_to_gregorian(jd) ==
    IF "nan" \in DOMAIN jd THEN Raise("ValueError")
    ELSE IF "inf" \in DOMAIN jd THEN Raise("OverflowError")
    ELSE Return(jd_to_gregorian(jd.fin))

\* f"{n:02d}"
Pad2(n) == IF n >= 0 /\ n < 10 THEN "0" \o ToString(n) ELSE ToString(n)

\* f"{second:05.2f}" for a float second counted in 1/RoundScale: the
\* hundredths nearest to it, zero-padded to five characters.  (A second
\* ending in exactly 50 ten-thousandths is rounded by the error of its float;
\* none arises here.)
Fmt05_2f(second) ==
    IF "nan" \in DOMAIN second THEN "00nan"
    ELSE IF "inf" \in DOMAIN second THEN "00inf"
    ELSE LET n == second.fin
             h == (n \div 100) + (IF n % 100 > 50 THEN 1 ELSE 0)
             a == IF h < 0 THEN -h ELSE h
             digits == ToString(a \div 100) \o "." \o Pad2(a % 100)
         IN  IF n < 0 THEN "-" \o digits
             ELSE IF a < 1000 THEN "0" \o digits
             ELSE digits

\* round(jd, 6) of a float that may be nan or inf.
Round6(jd) == IF "fin" \in DOMAIN jd THEN Fin(PyRound6(jd.fin)) ELSE jd

\* What a call leaves behind: the core's arguments and outcome (or None if
\* the core was not invoked), the response and the error.
Ended(core, response, error) ==
    [core |-> core, response |-> response, error |-> error]

handle_convert_to_jd(data) ==
    LET year == data.year
        month == data.month
        day == data.day
        hour == data.hour
        minute == data.minute
        second == IF "int" \in DOMAIN data.second
                  THEN Fin(Whole(data.second.int)) ELSE data.second
        jd == call_gregorian_to_jd(year, month, day, hour, minute, second)
        core == Some([args |-> <<year, month, day, hour, minute, second>>,
                      outcome |-> jd])
    IN  IF Raised(jd)
        THEN \* except Exception as err: _LOGGER.error(...); raise
             Ended(core, None, Some(jd.raised))
        ELSE Ended(core,
                   Some([julian_day |-> Round6(jd.value),
                         input_date |->
                             ToString(year.int) \o "-" \o Pad2(month.int)
                             \o "-" \o Pad2(day.int) \o " " \o Pad2(hour.int)
                             \o ":" \o Pad2(minute.int) \o ":"
                             \o Fmt05_2f(second)]),
                   None)

handle_convert_to_gregorian(data) ==
    LET jd == IF "int" \in DOMAIN data.julian_day
              THEN Fin(Days(data.julian_day.int, 0, 0)) ELSE data.julian_day
        date == call_jd_to_gregorian(jd)
        core == Some([args |-> <<jd>>, outcome |-> date])
    IN  IF Raised(date)
        THEN \* except Exception as err: _LOGGER.error(...); raise
             Ended(core, None, Some(date.raised))
        ELSE LET d == date.value
             IN  Ended(core,
                       Some([year |-> d.year, month |-> d.month, day |-> d.day,
                             hour |-> d.hour, minute |-> d.minute,
                             second |-> d.second,
                             formatted |->
                                 ToString(d.year) \o "-" \o Pad2(d.month)
                                 \o "-" \o Pad2(d.day) \o " " \o Pad2(d.hour)
                                 \o ":" \o Pad2(d.minute) \o ":"
                                 \o Fmt05_2f(Fin(d.second))]),
                       None)

\* Requests: fields in and out of the documented ranges, optional fields
\* present or left out, a required field left out.
RequestYears == {Whl(-1), Whl(0), Whl(2000), Huge}
RequestMonths == {Whl(0), Whl(1), Whl(12), Whl(13)}
RequestDays == {Whl(0), Whl(1), Whl(31), Whl(32)}
RequestHours == {Whl(-1), Whl(0), Whl(23), Whl(24)}
RequestMinutes == {Whl(-1), Whl(0), Whl(59), Whl(60)}
\* -1.0, 0.0, 59.99, 60.0, 75.5, nan and inf
RequestSeconds == {Fin(-10000), Fin(0), Fin(599900), Fin(600000), Fin(755000),
                   NaN, Inf}
Optional(key, values) ==
    {[k \in {key} |-> v] : v \in values} \cup {[k \in {} |-> Whl(0)]}
JdRequests ==
    {(([year |-> y, month |-> m, day |-> d] @@ h) @@ mi) @@ sec :
        y \in RequestYears, m \in RequestMonths, d \in RequestDays,
        h \in Optional("hour", RequestHours),
        mi \in Optional("minute", RequestMinutes),
        sec \in Optional("second", RequestSeconds)}
    \cup {[year |-> Whl(2000), month |-> Whl(1)]}
GregorianRequests ==
    {[julian_day |-> Fin(jd)] : jd \in InputJds}
    \cup {[julian_day |-> NaN], [julian_day |-> Inf], [julian_day |-> Text],
          [julian_day |-> Whl(2451545)]}

\* async_setup has registered the two services; no call yet.
SvInit ==
    /\ sv_service = "none" /\ sv_data = None /\ sv_core = None
    /\ sv_response = None /\ sv_error = None

SvIdle ==
    /\ sv_service = "off" /\ sv_data = None /\ sv_core = None
    /\ sv_response = None /\ sv_error = None

\* A service call: the schema validates call.data, then the handler runs.
\* The handlers keep nothing from one call to the next, so a behaviour
\* follows a single call.
ServiceCall(service, data, validated, ended) ==
    /\ sv_service = "none"
    /\ sv_service' = service
    /\ sv_data' = data
    /\ IF Raised(validated)
       THEN /\ sv_core' = None /\ sv_response' = None
            /\ sv_error' = Some(validated.raised)
       ELSE /\ sv_core' = ended.core /\ sv_response' = ended.response
            /\ sv_error' = ended.error
    /\ UNCHANGED <<rt_vars, wk_vars, ck_vars, sd_vars, co_vars, yr_vars, hm_vars>>

ConvertToJulianDay ==
    \E data \in JdRequests :
        LET validated == CONVERT_TO_JD_SCHEMA(data)
        IN  ServiceCall("convert_to_julian_day", data, validated,
                        handle_convert_to_jd(validated.value))

ConvertToGregorian ==
    \E data \in GregorianRequests :
        LET validated == CONVERT_TO_GREGORIAN_SCHEMA(data)
        IN  ServiceCall("convert_to_gregorian", data, validated,
                        handle_convert_to_gregorian(validated.value))

SvNext == ConvertToJulianDay \/ ConvertToGregorian

(***************************************************************************)
(* degrees_to_hms of the current algorithms.py.  Its intermediate floats   *)
(* lie below 1, finer than the angle record, so they are kept on four      *)
(* limbs [deg, hi, lo, ex]:  deg + hi / 2^26 + lo / 2^52 + ex / 2^78.      *)
(***************************************************************************)
\* The record of  d + h / 2^26 + l / 2^52 + e / 2^78  for naturals.
Fine(d, h, l, e) ==
    LET l2 == l + (e \div Limb)
        h2 == h + (l2 \div Limb)
    IN  [deg |-> d + (h2 \div Limb), hi |-> h2 % Limb, lo |-> l2 % Limb,
         ex |-> e % Limb]

\* An angle record on four limbs.
FineAng(a) == Fine(a.deg, a.hi, a.lo, 0)

\* x * n, exact, for 0 <= n < 32.
Times(x, n) == Fine(x.deg * n, x.hi * n, x.lo * n, x.ex * n)

\* x / 15 by long division: the quotient cut at 2^-78 and, as tail, where
\* the rest of it lies in the last unit: 0 nothing, 1 below the half,
\* 3 above the half (15 is odd: the exact half, 2, does not occur).
Div15(x) ==
    LET n1 == (x.deg % 15) * Limb + x.hi
        n2 == (n1 % 15) * Limb + x.lo
        n3 == (n2 % 15) * Limb + x.ex
        r == n3 % 15
    IN  [q |-> [deg |-> x.deg \div 15, hi |-> n1 \div 15, lo |-> n2 \div 15,
                ex |-> n3 \div 15],
         tail |-> IF r = 0 THEN 0 ELSE IF 2 * r < 15 THEN 1 ELSE 3]

\* The float nearest to the number x (+ a tail below 2^-78): 53 significant
\* bits, an exact tie going to the even mantissa.  q is the float step in
\* units of the limb it ends in: lo from 1 on, ex from 2^-26 on.  Smaller
\* numbers are kept as they are.
Round53(number, tail) ==
    Once(number, LAMBDA a :
        LET top == IF a.deg >= 1 THEN a.deg ELSE a.hi
            q == CHOOSE p \in {2 ^ e : e \in 0 .. 26} : p <= top /\ top < 2 * p
            limb == IF a.deg >= 1 THEN a.lo ELSE a.ex
            k == limb \div q
            r == limb % q
            half == Limb \div 2
            bit == IF a.deg >= 1 THEN (IF a.ex >= half THEN 1 ELSE 0)
                   ELSE (IF tail >= 2 THEN 1 ELSE 0)
            lower == IF a.deg >= 1 THEN a.ex % half > 0 \/ tail > 0
                     ELSE tail % 2 = 1
            rem2 == 2 * r + bit
            up == \/ rem2 > q
                  \/ rem2 = q /\ (lower \/ k % 2 = 1)
            n == (IF up THEN k + 1 ELSE k) * q
        IN  IF top = 0 THEN a
            ELSE IF a.deg >= 1 THEN Fine(a.deg, a.hi, n, 0)
            ELSE Fine(0, a.hi, a.lo, n))

\* x / 15.0 and x * 60 on floats.
PyDiv15(x) == Once(Div15(x), LAMBDA d : Round53(d.q, d.tail))
PyMul60(x) == Round53(Times(Times(x, 15), 4), 0)

\* x - int(x) on floats, exact for x >= 0.
Frac(x) == [x EXCEPT !.deg = 0]

degrees_to_hms(degrees) ==
    Once(PyDiv15(degrees), LAMBDA hours_float :
    Once(PyMul60(Frac(hours_float)), LAMBDA minutes_float :
        LET h == hours_float.deg
            m == minutes_float.deg
            s == PyMul60(Frac(minutes_float)).deg
        IN  Pad2(h) \o ":" \o Pad2(m) \o ":" \o Pad2(s)))

\* The angles degrees_to_hms is applied to: the sixteenths of a degree
\* below 360 and the floats n / 240.0, the angle of n seconds of time.
MaxSixteenths == 5759
MaxSeconds == 480
Sixteenths(k) == Fine(k \div 16, (k % 16) * (Limb \div 16), 0, 0)
HmsInputs ==
    {Sixteenths(k) : k \in 0 .. MaxSixteenths}
        \cup {PyDiv15(Sixteenths(n)) : n \in 0 .. MaxSeconds}

HmInit ==
    /\ hm_degrees \in {Some(d) : d \in HmsInputs}
    /\ hm_hms = None

HmIdle == hm_degrees = None /\ hm_hms = None

CallDegreesToHms ==
    /\ hm_degrees # None
    /\ hm_hms = None
    /\ hm_hms' = Some(degrees_to_hms(Val(hm_degrees)))
    /\ UNCHANGED hm_degrees
    /\ UNCHANGED <<rt_vars, wk_vars, ck_vars, sd_vars, co_vars, yr_vars, sv_vars>>

HmNext == CallDegreesToHms

(***************************************************************************)
(* The sensors' properties (sensor.py), read from the coordinator's fields *)
(* [jd, gmst_deg, lmst_deg] as they are at the moment of the read.         *)
(***************************************************************************)
MeeusJulianDaySensor_state(coordinator) ==
    IF coordinator.jd = None THEN None
    ELSE Some(PyRound6(Val(coordinator.jd)))

MeeusJulianDaySensor_available(coordinator) == coordinator.jd # None

MeeusGMSTSensor_state(coordinator) ==
    IF coordinator.gmst_deg = None THEN None
    ELSE Some(degrees_to_hms(FineAng(Val(coordinator.gmst_deg))))

MeeusGMSTSensor_available(coordinator) == coordinator.gmst_deg # None

MeeusLMSTSensor_state(coordinator) ==
    IF coordinator.lmst_deg = None THEN None
    ELSE Some(degrees_to_hms(FineAng(Val(coordinator.lmst_deg))))

\* An LMST sensor that takes its availability from the Julian Day.
MeeusLMSTSensor_available_jd(coordinator) == coordinator.jd # None

MeeusLMSTSensor_available(coordinator) == coordinator.lmst_deg # None

(***************************************************************************)
(* Specifications.                                                         *)
(***************************************************************************)
RoundTripInit ==
    RtInit /\ WkIdle /\ CkIdle /\ SdIdle /\ CoIdle /\ YrIdle /\ SvIdle /\ HmIdle
WeekInit ==
    WkInit /\ RtIdle /\ CkIdle /\ SdIdle /\ CoIdle /\ YrIdle /\ SvIdle /\ HmIdle
ClockInit ==
    CkInit /\ RtIdle /\ WkIdle /\ SdIdle /\ CoIdle /\ YrIdle /\ SvIdle /\ HmIdle
SiderealInit ==
    SdInit /\ RtIdle /\ WkIdle /\ CkIdle /\ CoIdle /\ YrIdle /\ SvIdle /\ HmIdle
CoordinatorInit ==
    CoInit /\ RtIdle /\ WkIdle /\ CkIdle /\ SdIdle /\ YrIdle /\ SvIdle /\ HmIdle
YearInit ==
    YrInit /\ RtIdle /\ WkIdle /\ CkIdle /\ SdIdle /\ CoIdle /\ SvIdle /\ HmIdle
ServiceInit ==
    SvInit /\ RtIdle /\ WkIdle /\ CkIdle /\ SdIdle /\ CoIdle /\ YrIdle /\ HmIdle
HmsInit ==
    HmInit /\ RtIdle /\ WkIdle /\ CkIdle /\ SdIdle /\ CoIdle /\ YrIdle /\ SvIdle

SpecRoundTrip == RoundTripInit /\ [][RtNext]_vars
SpecWeek == WeekInit /\ [][WkNext]_vars
SpecClock == ClockInit /\ [][CkNext]_vars
SpecSidereal == SiderealInit /\ [][SdNext]_vars
SpecCoordinator == CoordinatorInit /\ [][CoNext]_vars
SpecYear == YearInit /\ [][YrNext]_vars
SpecService == ServiceInit /\ [][SvNext]_vars
SpecHms == HmsInit /\ [][HmNext]_vars

(***************************************************************************)
(* Claims.                                                                 *)
(***************************************************************************)
\* C1. Round trip date -> JD -> date: for every valid CalendarDate d,
\* jd_to_gregorian(gregorian_to_jd(d)) returns the fields of d, the seconds
\* within 1e-4 (one rounding step), dates before 15 October 1582 included.
SameDate(a, b) ==
    /\ a.year = b.year /\ a.month = b.month /\ a.day = b.day
    /\ a.hour = b.hour /\ a.minute = b.minute
    /\ a.second - b.second <= 1
    /\ b.second - a.second <= 1
RoundTripDate ==
    (rt_kind = "date" /\ rt_n = 2) => SameDate(Val(rt_date), rt_orig)

\* C2. Round trip JD -> date -> JD: for every JD >= 0 on a whole second,
\* gregorian_to_jd of the six fields of jd_to_gregorian(jd) is jd again, on
\* both sides of the cutover Z = 2299161.
RoundTripJd ==
    (rt_kind = "jd" /\ rt_n = 2) => Val(rt_jd) = rt_orig

\* C3. Known value: gregorian_to_jd(333, 1, 27, 12, 0, 0) = 1842713.0.
KnownValue333 ==
    (rt_kind = "date" /\ rt_n >= 1 /\ rt_orig = Date(333, 1, 27, 12, 0, 0))
        => Val(rt_jd) = Days(1842713, 0, 0)

\* C4. Snapshot atomicity of the coordinator: the sensors never read a mix
\* of jd, gmst_deg and lmst_deg that come from different ticks; what they
\* read, once all three are set, is one tick's jd with the gmst_deg and the
\* lmst_deg computed from it.
SnapshotWhole ==
    co_seen # None =>
        LET seen == Val(co_seen)
        IN  (seen.jd # None /\ seen.gmst_deg # None /\ seen.lmst_deg # None)
            => /\ Val(seen.gmst_deg)
                     = get_mean_sidereal_time_greenwich(Val(seen.jd))
               /\ Val(seen.lmst_deg)
                     = get_local_sidereal_time(Val(seen.gmst_deg), co_longitude)

\* C5. Day-of-week periodicity: day_of_week(jd + 7) = day_of_week(jd) for
\* every jd, negative jd included: whole weeks later the day is the same.
WeekPeriodic == wk_weeks > 0 => wk_wd = wk_first

\* C6. Day-of-week is independent of the time of day: at every instant of a
\* civil date (00:00:00 to 23:59:59) the published weekday is the weekday of
\* that date's midnight, and the index is 0 for Sunday ... 6 for Saturday.
KnownWeekday(now) ==
    CASE <<now.year, now.month, now.day>> = <<2000, 1, 1>> -> {6}
      [] <<now.year, now.month, now.day>> = <<1957, 10, 4>> -> {5}
      [] <<now.year, now.month, now.day>> = <<2024, 2, 29>> -> {4}
      [] <<now.year, now.month, now.day>> = <<1900, 12, 31>> -> {1}
      [] OTHER -> 0 .. 6
WeekdayAllDay ==
    ck_op # "idle" =>
        /\ ck_wd = day_of_week(gregorian_to_jd(ck_now.year, ck_now.month,
                                                ck_now.day, 0, 0, 0))
        /\ ck_wd \in KnownWeekday(ck_now)

\* C7. Sidereal normalization: get_mean_sidereal_time_greenwich(jd) is
\* >= 0 and < 360 for every jd, and get_local_sidereal_time(gmst, longitude)
\* is >= 0 and < 360 for every gmst in [0, 360) and every signed longitude.
InTurn(a) == a.deg >= 0 /\ a.deg < 360
SiderealNormalized ==
    /\ sd_src = "jd" => InTurn(Val(sd_gmst))
    /\ sd_lmst # None => InTurn(Val(sd_lmst))

\* C8. Both input forms give the same JD: gregorian_to_jd(y, m, day + f)
\* with f the time of day as a fraction of a day equals
\* gregorian_to_jd(y, m, day, hour, minute, second).
BothFormsAgree == ck_op # "idle" => ck_jd_frac = ck_jd
BothFormsWitness ==
    /\ ck_op = "second" /\ ck_now.hour = 19 /\ ck_now.second = 25
    /\ ck_jd_frac = ck_jd /\ ck_jd.sec # HalfDay

\* C9. Elapsed calendar days: between two dates at 0h, time_interval of
\* their Julian Days is the number of calendar days between them (1 from each
\* day to the next, 27689 from 1910-04-20 to 1986-02-09).
ElapsedDays ==
    (ck_op # "idle" /\ AtMidnight(ck_start) /\ AtMidnight(ck_now))
        => time_interval(ck_jd0, ck_jd) = Days(ck_elapsed, 0, 0)

\* C10. Monotonic JD: with year, month, day, hour and minute fixed, one
\* second more makes gregorian_to_jd, and get_julian_day, larger by 1/86400
\* day to within the float tolerance: by less than one float step of the
\* Julian Days before 2^22 (2^-31 day) from 1/86400 day.
OneSecond == Days(0, 1, 0)
NearOneSecond(d) ==
    LET err == DaysAbs(DaysMinus(d, OneSecond))
    IN  err.day = 0 /\ err.sec = 0 /\ err.sub < FloatStep(2)
YearLength(year) ==
    IF year % 4 = 0 /\ (year % 100 # 0 \/ year % 400 = 0) THEN 366 ELSE 365
DayOfYearCounts ==
    yr_now # None =>
        /\ yr_doy \in 1 .. YearLength(yr_now.year)
        /\ (yr_now.month = 1 /\ yr_now.day = 1) => yr_doy = 1
        /\ (yr_now.month = 12 /\ yr_now.day = 31)
              => yr_doy = YearLength(yr_now.year)
        /\ (yr_prev # None /\ Val(yr_prev).now.year = yr_now.year)
              => yr_doy = Val(yr_prev).doy + 1
DayOfYearWitness ==
    /\ yr_now # None /\ yr_prev # None
    /\ yr_now.year = 2024 /\ yr_now.month = 12 /\ yr_now.day = 31
    /\ yr_doy = 366 /\ Val(yr_prev).doy = 365

\* C12. Leap years: is_leap_year(year) is true iff year % 4 == 0 and
\* (year % 100 != 0 or year % 400 == 0), for every integer year: 2000 and
\* 2024 are leap years, 1900 and 2023 are not.
LeapYearRule ==
    yr_now # None =>
        /\ yr_leap = (/\ yr_now.year % 4 = 0
                      /\ (yr_now.year % 100 # 0 \/ yr_now.year % 400 = 0))
        /\ yr_now.year \in {2000, 2024} => yr_leap = TRUE
        /\ yr_now.year \in {1900, 2023} => yr_leap = FALSE
LeapYearWitness ==
    /\ yr_now # None
    /\ yr_now.year = 1900 /\ yr_now.month = 2 /\ yr_now.day = 28
    /\ yr_leap = FALSE /\ yr_steps > 0

\* C13. Request validation: every convert_to_julian_day request with a field
\* outside its documented range (month outside 1-12, day outside 1-31, hour
\* outside 0-23, minute outside 0-59, second negative or >= 60) is rejected
\* with a validation error before gregorian_to_jd is invoked.
FieldOutside(data, key, lo, hi) ==
    /\ key \in DOMAIN data
    /\ "int" \in DOMAIN data[key]
    /\ data[key].int < lo \/ data[key].int > hi
SecondOutside(data) ==
    /\ "second" \in DOMAIN data
    /\ \/ "inf" \in DOMAIN data.second
       \/ /\ "fin" \in DOMAIN data.second
          /\ data.second.fin < 0 \/ data.second.fin >= Whole(60)
OutOfRange(data) ==
    \/ FieldOutside(data, "month", 1, 12)
    \/ FieldOutside(data, "day", 1, 31)
    \/ FieldOutside(data, "hour", 0, 23)
    \/ FieldOutside(data, "minute", 0, 59)
    \/ SecondOutside(data)
RequestValidated ==
    (sv_service = "convert_to_julian_day" /\ OutOfRange(sv_data))
        => sv_error = Some("Invalid") /\ sv_core = None

\* C14. Error propagation: in both handlers, whenever the core computation
\* fails (it raises, or a non-finite number reaches it or comes out of it)
\* the call ends in an error reported to the caller and returns no response;
\* a response dictionary is returned only when the computation succeeded.
NonFinite(v) == DOMAIN v \cap {"nan", "inf"} # {}
CoreFailed(core) ==
    \/ Raised(core.outcome)
    \/ NonFinite(core.outcome.value)
    \/ \E i \in DOMAIN core.args : NonFinite(core.args[i])
ErrorsPropagate ==
    sv_service \in {"convert_to_julian_day", "convert_to_gregorian"} =>
        /\ (sv_core # None /\ CoreFailed(Val(sv_core)))
              => sv_error # None /\ sv_response = None
        /\ sv_response # None
              => sv_core # None /\ ~CoreFailed(Val(sv_core))

\* C15. Floor, not truncation: for every integer year, years whose adjusted
\* value (year - 1 for January and February) is negative included,
\* gregorian_to_jd returns the JD of the reference formula
\* floor(365.25 * (Y + 4716)) + floor(30.6001 * (M + 1)) + D + B - 1524.5
\* plus the day fraction, A = floor(Y / 100), B = 2 - A + floor(A / 4).
\* (The formula is taken in exact arithmetic and the float compared with it
\* to within one float step, 2^-31 day.)
AdjustedYear(now) == IF now.month <= 2 THEN now.year - 1 ELSE now.year
AdjustedMonth(now) == IF now.month <= 2 THEN now.month + 12 ELSE now.month
GregorianB(now) ==
    LET A == PyFloorDiv(AdjustedYear(now), 100)
    IN  2 - A + PyFloorDiv(A, 4)
ReferenceJd(now, B) ==
    Days(PyFloorDiv(1461 * (AdjustedYear(now) + 4716), 4)
           + PyFloorDiv(306001 * (AdjustedMonth(now) + 1), 10000)
           + now.day + B - 1525,
         now.hour * 3600 + now.minute * 60 + now.second + HalfDay,
         0)
NearJd(a, b) ==
    LET err == DaysAbs(DaysMinus(a, b))
    IN  err.day = 0 /\ err.sec = 0 /\ err.sub < FloatStep(2)
FloorNotTruncation ==
    ck_op # "idle" => NearJd(ck_jd, ReferenceJd(ck_now, GregorianB(ck_now)))

\* C16. Single cutover policy: the date -> JD conversion applies the
\* Gregorian correction B = 2 - A + floor(A / 4) to every input date, dates
\* before 15 October 1582 included (no date takes a branch with B = 0), and
\* get_julian_day of a datetime returns the same JD as gregorian_to_jd of the
\* same year, month, day, hour, minute and second for every instant with
\* year >= 1.
NoJulianBranch ==
    GregorianB(ck_now) # 0 => ~NearJd(ck_jd, ReferenceJd(ck_now, 0))
AppliesB ==
    NearJd(DaysMinus(ck_jd, ReferenceJd(ck_now, 0)),
           Days(GregorianB(ck_now), 0, 0))
SinglePolicy ==
    ck_op # "idle" =>
        /\ NoJulianBranch
        /\ AppliesB
        /\ ck_now.year >= 1 => (ck_gjd # None /\ Val(ck_gjd) = ck_jd)

\* C17. degrees_to_hms truncates.  For a float 0 <= d < 360 the string it
\* returns is 'HH:MM:SS' with two digits per field, HH in 00..23, MM and SS
\* in 00..59, and HH * 3600 + MM * 60 + SS = floor(d * 240), the whole
\* seconds of time in d: the last field is never rounded up and never one
\* short.
FloorSeconds(d) == Times(Times(d, 15), 16).deg
HmsOf(t) ==
    Pad2(t \div 3600) \o ":" \o Pad2((t \div 60) % 60) \o ":" \o Pad2(t % 60)
HmsTruncates ==
    hm_hms # None /\ Val(hm_degrees).deg < 360
        => Val(hm_hms) = HmsOf(FloorSeconds(Val(hm_degrees)))

\* C18. jd_to_gregorian returns a valid CalendarDate for every jd >= 0:
\* month in 1..12, day in 1..(number of days of that month), hour in 0..23,
\* minute in 0..59 and second >= 0 and < 60.  The month's days are counted
\* in the calendar the date is given in: the Julian one before 15 October
\* 1582, where every fourth year is a leap year.
BeforeReform(date) ==
    \/ date.year < 1582
    \/ date.year = 1582 /\ date.month < 10
    \/ date.year = 1582 /\ date.month = 10 /\ date.day < 15
MonthLength(date) ==
    IF date.month = 2 /\ BeforeReform(date) /\ date.year % 4 = 0 THEN 29
    ELSE DaysInMonth(date.year, date.month)
\* The Julian Day the date at hand was computed from, if it was computed.
DateSource ==
    IF rt_kind = "jd" /\ rt_n >= 1 THEN Some(rt_orig)
    ELSE IF rt_kind = "date" /\ rt_n = 2 THEN rt_jd
    ELSE None
ReturnsValidDate ==
    DateSource # None /\ Val(DateSource).day >= 0 =>
        LET date == Val(rt_date)
        IN  /\ date.month \in 1 .. 12
            /\ date.day \in 1 .. MonthLength(date)
            /\ date.hour \in 0 .. 23
            /\ date.minute \in 0 .. 59
            /\ date.second >= 0 /\ date.second < Whole(60)

\* C19. Sensor availability is ordered and monotonic.  In every reachable
\* state of the coordinator, the states in the middle of an update
\* included, LMST available implies GMST available and GMST available
\* implies JD available; each sensor reports the state None exactly when it
\* is unavailable; and a sensor that has become available never becomes
\* unavailable again, whatever updates follow.
\* The coordinator as a sensor finds it.
Coordinator ==
    [jd |-> co_jd, gmst_deg |-> co_gmst_deg, lmst_deg |-> co_lmst_deg]
AvailabilityOrdered ==
    /\ MeeusLMSTSensor_available(Coordinator)
           => MeeusGMSTSensor_available(Coordinator)
    /\ MeeusGMSTSensor_available(Coordinator)
           => MeeusJulianDaySensor_available(Coordinator)
NoneWhenUnavailable ==
    /\ MeeusJulianDaySensor_state(Coordinator) = None
           <=> ~MeeusJulianDaySensor_available(Coordinator)
    /\ MeeusGMSTSensor_state(Coordinator) = None
           <=> ~MeeusGMSTSensor_available(Coordinator)
    /\ MeeusLMSTSensor_state(Coordinator) = None
           <=> ~MeeusLMSTSensor_available(Coordinator)
StaysAvailable ==
    /\ MeeusJulianDaySensor_available(Coordinator)
           => MeeusJulianDaySensor_available(Coordinator')
    /\ MeeusGMSTSensor_available(Coordinator)
           => MeeusGMSTSensor_available(Coordinator')
    /\ MeeusLMSTSensor_available(Coordinator)
           => MeeusLMSTSensor_available(Coordinator')
SensorsAvailability ==
    /\ [](co_pc # "off" => AvailabilityOrdered /\ NoneWhenUnavailable)
    /\ [][StaysAvailable]_vars
\* A later update is under way with every sensor available, after the
\* sensors were read in the middle of the first update, the Julian Day
\* sensor available and the LMST sensor not yet.
SensorsAvailabilityWitness ==
    /\ co_ticks >= 2 /\ co_pc = "gmst"
    /\ MeeusLMSTSensor_available(Coordinator)
    /\ MeeusLMSTSensor_state(Coordinator) # None
    /\ co_seen # None
    /\ MeeusJulianDaySensor_available(Val(co_seen))
    /\ ~MeeusLMSTSensor_available(Val(co_seen))


=========================================================================
